---- MODULE Spec2Model ----
(***************************************************************************)
(* Model of the tool-invocation audit layer (src/langchain_agent.py,       *)
(* src/app_flask.py), of the model descriptor store                        *)
(* (src/tools/model_manager.py) and of the backend registry and the        *)
(* detection output (src/tools/local_models.py).                           *)
(*                                                                         *)
(* Python lists are objects with identity: `heap` is the store of list     *)
(* objects, a reference is an index into it.  Python values that end up in *)
(* a record's 'input' are kept with their Python type (dict, tuple, str).  *)
(***************************************************************************)
EXTENDS Integers, Sequences, FiniteSets, TLC

(* ---------------------------------------------------------------- bounds *)
\* number of HTTP requests / turns handled in one behaviour
MaxRequests == 2
\* number of tool executions (RecordableTool._run) in one behaviour
MaxCalls == 2
\* number of add_model / update_model_config / remove_model calls in one behaviour
MaxStoreOps == 1

Requests == 1..MaxRequests

(* ------------------------------------------------------ Python values    *)
PyDict(items) == [type |-> "dict", items |-> items]
PyTuple(items) == [type |-> "tuple", items |-> items]
PyStr(s) == [type |-> "str", items |-> << <<"", s>> >>]

\* truthiness of kwargs / args: an empty dict or tuple is falsy
Truthy(items) == Len(items) > 0

\* dict lookup: the value bound to key k, "" when absent
RECURSIVE Lookup(_, _)
Lookup(items, k) ==
    IF items = <<>> THEN ""
    ELSE IF Head(items)[1] = k THEN Head(items)[2]
    ELSE Lookup(Tail(items), k)

HasKey(items, k) == \E i \in 1..Len(items) : items[i][1] = k

(* ------------------------------------------------------ tool recorder    *)
\* tool_recorder['tool_calls'] is bound once to one list object and never
\* rebound: the live list is object 1 of the heap.
tool_calls_ref == 1

VARIABLES
    heap,        \* list objects: heap[ref] is the content of list `ref`
    agent,       \* self.agent is not None
    pc,          \* position of each request handler
    entry,       \* the entry point a request came through
    call,        \* the tool call a request is executing (PendingCall)
    runResult,   \* what RecordableTool._run gave its caller
    result,      \* what the entry point returned
    ncalls,      \* tool executions so far (bounds the behaviour)
    \* history variables (not program state)
    attempts,    \* per request: the tool executions it attempted, in order
    resets,      \* per request: number of clear_tool_calls() it performed
    owners,      \* owners[ref][i]: the request that appended heap[ref][i]
    snapVal,     \* per request: the content get_tool_calls() returned
    ops,         \* the recorder operations performed so far (last two)
    \* model descriptor store (ModelConfigManager) and its directory
    config_file,      \* models/config.json on disk
    artifacts,        \* the model files present under models/
    models_config,    \* self.models_config
    available_models, \* self.available_models
    \* history variables of the store
    fileBefore,  \* config.json as the last construction found it
    storeOp,     \* the last thing that happened to the store, with its I/O outcomes
    aliased,     \* ids whose classification entry holds the catalog's own descriptor object
    storePc,     \* position of the add/update/remove call in progress
    storeRet,    \* the last add/update/remove call: its write outcome and what it returned
    configBefore, \* history: the catalog when the add/update/remove call in progress began
    nstore,      \* add/update/remove calls so far (bounds the behaviour)
    \* backend registry (LocalModelManager)
    models,      \* self.models: the loaded backends by key
    regPc,       \* position of LocalModelManager() / reload_models
    detection,   \* what the backend resolution of the detect_objects call just made gave
    \* detection output (detect_objects, lines 153-179)
    box,         \* a raw output of the detector: confidence and corner coordinates
    detection_info,  \* the detection built from it
    \* annotation of a detection result (_draw_detections, detect_objects 181-205)
    detections,  \* the detection list handed to the renderer
    image,       \* the canvas: what has been drawn on it, in drawing order
    drawPc,      \* position of the detect_objects call in the rendering
    draw_i,      \* the index `i` of the enumerate loop
    annotated,   \* what detect_objects returned, and whether the file was written
    \* camera (CameraManager)
    camera,            \* self.camera: the capture handle, or None
    is_recording,      \* self.is_recording
    recording_thread,  \* the record_video thread: its state and its clock
    close_threads,     \* delayed_close threads that are still sleeping
    released,          \* the handles that have been released
    nopen,             \* handles created so far (bounds the behaviour)
    camOp,             \* history: the last camera step
    \* system_command (SystemCommandTool)
    pending_commands,  \* the class-level dict of commands awaiting confirmation
    submitted,         \* history: the command of the last call
    shell_call,        \* history: what the last call passed to subprocess.run
    reply,             \* history: the kind of text the last call returned
    \* keyword aliases (file_operation, document_read, cmd_search)
    toolCall,    \* the tool and the keyword arguments of a call
    resolved     \* the parameters the tool worked with

recorderVars == <<heap, agent, pc, entry, call, runResult, result, ncalls,
                  attempts, resets, owners, snapVal, ops>>
catalogVars == <<aliased, storePc, storeRet, configBefore, nstore>>
registryVars == <<models, regPc, detection>>
outputVars == <<box, detection_info>>
annotVars == <<detections, image, drawPc, draw_i, annotated>>
cameraVars == <<camera, is_recording, recording_thread, close_threads, released,
                nopen, camOp>>
commandVars == <<pending_commands, submitted, shell_call, reply>>
aliasVars == <<toolCall, resolved>>
toolVars == <<annotVars, cameraVars, commandVars, aliasVars>>
modelVars == <<config_file, artifacts, models_config, available_models,
               fileBefore, storeOp, catalogVars, registryVars, outputVars>>
storeVars == <<modelVars, toolVars>>
vars == <<recorderVars, storeVars>>

ExistingImages == {"cat.jpg"}

NoCall == [tool |-> "", args |-> <<>>, kwargs |-> <<>>]
NoRun == [kind |-> "none", value |-> ""]
NoResult == [set |-> FALSE, success |-> FALSE, has_calls |-> FALSE, tool_calls |-> 0]

\* the calls the planner (agent.run) issues: keyword arguments, possibly none
AgentCalls ==
    { [tool |-> "image_analysis", args |-> <<>>,
       kwargs |-> << <<"image_path", "missing.jpg">> >>],
      [tool |-> "image_analysis", args |-> <<>>,
       kwargs |-> << <<"image_path", "cat.jpg">> >>],
      [tool |-> "image_analysis", args |-> <<>>, kwargs |-> <<>>],
      [tool |-> "text_to_speech", args |-> <<>>,
       kwargs |-> << <<"text", "hi">> >>] }

\* ImageAnalysisTool._original_run: the whole body is inside try/except and
\* returns text; only a missing required argument raises (TypeError, raised
\* by the call itself).
ImageAnalysisTool_original_run(args, kwargs) ==
    LET bound == Truthy(args) \/ HasKey(kwargs, "image_path")
        image_path == IF Truthy(args) THEN args[1] ELSE Lookup(kwargs, "image_path")
    IN  IF ~bound THEN [kind |-> "raise", value |-> "TypeError"]
        ELSE IF image_path \notin ExistingImages
             THEN [kind |-> "return", value |-> "image file does not exist"]
             ELSE [kind |-> "return", value |-> "image analysis report"]

\* TextToSpeechTool._original_run: engine errors are caught and returned as text
TextToSpeechTool_original_run(args, kwargs, engine_ok) ==
    LET bound == Truthy(args) \/ HasKey(kwargs, "text")
    IN  IF ~bound THEN [kind |-> "raise", value |-> "TypeError"]
        ELSE IF engine_ok
             THEN [kind |-> "return", value |-> "tts ok"]
             ELSE [kind |-> "return", value |-> "tts failed"]

original_run(c, engine_ok) ==
    IF c.tool = "image_analysis"
    THEN ImageAnalysisTool_original_run(c.args, c.kwargs)
    ELSE TextToSpeechTool_original_run(c.args, c.kwargs, engine_ok)

record_tool_call(calls, tool_name, tool_input, tool_output) ==
    Append(calls, [tool |-> tool_name, input |-> tool_input,
                   output |-> tool_output, status |-> "completed"])

\* faulty variant: returns the live list itself
get_tool_calls_live(h, new) == [heap |-> h, ref |-> tool_calls_ref]

\* list.copy(): a new list object `new` with the same elements
get_tool_calls(h, new) ==
    [heap |-> [h EXCEPT ![new] = h[tool_calls_ref]], ref |-> new]

\* faulty variant: drops only the oldest record
clear_tool_calls_tail(calls) == IF calls = <<>> THEN <<>> ELSE Tail(calls)

\* list.clear(): empties the list object in place
clear_tool_calls(calls) == <<>>

\* f"❌ 工具执行错误: {str(e)}"
error_msg(exc) == IF exc = "TypeError" THEN "tool error: TypeError" ELSE "tool error"

\* faulty variant: the failure is recorded and turned into a normal return
RecordableTool_run_swallow(calls, c, engine_ok) ==
    LET res == original_run(c, engine_ok)
        tool_input == IF Truthy(c.kwargs) THEN PyDict(c.kwargs)
                      ELSE IF Truthy(c.args) THEN PyStr(c.args[1])
                      ELSE PyDict(<<>>)
    IN  IF res.kind = "return"
        THEN [calls |-> record_tool_call(calls, c.tool, tool_input, res.value),
              result |-> res]
        ELSE [calls |-> record_tool_call(calls, c.tool, tool_input, error_msg(res.value)),
              result |-> [kind |-> "return", value |-> error_msg(res.value)]]

\* faulty variant: a failed call leaves no record
RecordableTool_run_norecord(calls, c, engine_ok) ==
    LET res == original_run(c, engine_ok)
        tool_input == IF Truthy(c.kwargs) THEN PyDict(c.kwargs)
                      ELSE IF Truthy(c.args) THEN PyStr(c.args[1])
                      ELSE PyDict(<<>>)
    IN  IF res.kind = "return"
        THEN [calls |-> record_tool_call(calls, c.tool, tool_input, res.value),
              result |-> res]
        ELSE [calls |-> calls, result |-> res]

\* RecordableTool._run: the records list after the call and what the caller gets
RecordableTool_run(calls, c, engine_ok) ==
    LET res == original_run(c, engine_ok)
        tool_input == IF Truthy(c.kwargs) THEN PyDict(c.kwargs)
                      ELSE IF Truthy(c.args) THEN PyStr(c.args[1])
                      ELSE PyDict(<<>>)
        failed_input == IF Truthy(c.kwargs) THEN PyDict(c.kwargs)
                        ELSE PyTuple([i \in 1..Len(c.args) |-> <<"", c.args[i]>>])
    IN  IF res.kind = "return"
        THEN [calls |-> record_tool_call(calls, c.tool, tool_input, res.value),
              result |-> res]
        ELSE [calls |-> record_tool_call(calls, c.tool, failed_input, error_msg(res.value)),
              result |-> res]

Last2(s) == IF Len(s) <= 2 THEN s ELSE SubSeq(s, Len(s) - 1, Len(s))
Op(name, ref, n) == [op |-> name, ref |-> ref, dropped |-> n > 0]

\* object ids: the live list, and the list object request r creates (ids are
\* only labels, so the object of request r is given the id NewRef(r))
NewRef(r) == tool_calls_ref + r
Refs == {tool_calls_ref} \cup {NewRef(r) : r \in Requests}

(* ------------------------------------------------ model descriptor store *)
EmptyMap == [x \in {} |-> 0]

\* _create_default_config, lines 41-99: the five built-in descriptors
DefaultIds == {"yolov8n", "yolov8s", "yolov8m", "yolov8l", "yolov8x"}
Descriptor(id) == [name |-> id, type |-> "yolov8", file |-> id, task |-> "detection"]
default_config ==
    [keys |-> {"models", "settings"},
     models |-> [id \in DefaultIds |-> Descriptor(id)],
     default_model |-> "yolov8n"]

\* other JSON documents a config.json can hold: a catalog edited by its owner,
\* and the empty object {}
user_config ==
    [keys |-> {"models", "settings"},
     models |-> [id \in {"yolov8n", "custom"} |-> Descriptor(id)],
     default_model |-> "custom"]
empty_object == [keys |-> {}, models |-> EmptyMap, default_model |-> ""]
Documents == {default_config, user_config, empty_object}

\* a file: absent, or its text: zero bytes, text that is not JSON (a truncated
\* document), or the text of a document
Absent == [kind |-> "absent", doc |-> empty_object]
EmptyFile == [kind |-> "empty", doc |-> empty_object]
CorruptFile == [kind |-> "corrupt", doc |-> empty_object]
Files == {Absent, EmptyFile, CorruptFile} \cup {[kind |-> "json", doc |-> d] : d \in Documents}

\* the model files that come and go under models/ (a descriptor's file is
\* named after its id here)
ArtifactFiles == {"yolov8n", "yolov8s", "custom"}

\* json.dump(obj, f, indent=2, ensure_ascii=False): the text of obj
json_dump(obj) == [kind |-> "json", doc |-> obj]

\* json.load(f): the document of a JSON text, JSONDecodeError otherwise
json_load(f) ==
    IF f.kind = "json" THEN [ok |-> TRUE, doc |-> f.doc]
    ELSE [ok |-> FALSE, doc |-> empty_object]

WriteOutcomes == {"ok", "open_failed", "partial"}

\* _save_config: open(config_file, 'w') and json.dump inside try/except that
\* only logs.  "open_failed": the file is left as it was; "partial": the file
\* was truncated by open and the dump broke off.
save_config(file, cfg, w) ==
    IF w = "ok" THEN json_dump(cfg)
    ELSE IF w = "open_failed" THEN file
    ELSE CorruptFile

\* _create_default_config: the default catalog in memory, then _save_config
create_default_config(file, w) ==
    [config |-> default_config, file |-> save_config(file, default_config, w), wrote |-> TRUE]

\* faulty variant: an existing file is never written, whatever reading it gave
load_config_keep(file, read_ok, w) ==
    IF file.kind # "absent"
    THEN IF read_ok /\ json_load(file).ok
         THEN [config |-> json_load(file).doc, file |-> file, wrote |-> FALSE]
         ELSE [config |-> default_config, file |-> file, wrote |-> FALSE]
    ELSE create_default_config(file, w)

\* _load_config: the catalog in memory and the file afterwards
load_config(file, read_ok, w) ==
    IF file.kind # "absent"
    THEN IF read_ok /\ json_load(file).ok
         THEN [config |-> json_load(file).doc, file |-> file, wrote |-> FALSE]
         ELSE create_default_config(file, w)
    ELSE create_default_config(file, w)

\* _scan_models: the classification built from the catalog and the directory;
\* on an exception (scan_ok false) the previous classification stays
scan_models(cfg, arts, prev, scan_ok) ==
    IF ~scan_ok THEN prev
    ELSE [id \in DOMAIN cfg.models |->
            IF cfg.models[id].file \in arts
            THEN [status |-> "available", file_path |-> cfg.models[id].file,
                  config |-> cfg.models[id]]
            ELSE [status |-> "missing", file_path |-> cfg.models[id].file,
                  config |-> cfg.models[id]]]

NoStoreOp == [op |-> "none", read_ok |-> TRUE, write |-> "none"]
Event(name) == [op |-> name, read_ok |-> TRUE, write |-> "none"]

\* no add/update/remove call has run yet
NoReturn == [op |-> "none", write |-> "none", ret |-> "none"]

\* no detector output at hand, no detection built
NoBox == [conf |-> 0, xyxy |-> <<0, 0, 0, 0>>]
NoInfo == [set |-> FALSE, confidence |-> 0, bbox |-> <<0, 0, 0, 0>>]

\* no backend resolution has run yet
NoDetection == [set |-> FALSE, model_id |-> "", success |-> FALSE, key |-> "", backend |-> "",
                model_used |-> ""]

\* before ModelConfigManager() runs: lines 15-16, any config.json on disk
StoreInit ==
    /\ config_file \in Files
    /\ artifacts = {}
    /\ models_config = empty_object
    /\ available_models = EmptyMap
    /\ fileBefore = Absent
    /\ storeOp = NoStoreOp
    /\ aliased = {}
    /\ storePc = "none"
    /\ storeRet = NoReturn
    /\ configBefore = empty_object
    /\ nstore = 0
    /\ models = EmptyMap
    /\ regPc = "none"
    /\ detection = NoDetection
    /\ box = NoBox
    /\ detection_info = NoInfo

\* ModelConfigManager.__init__ (lines 12-23), run when the process starts:
\* _load_config then _scan_models
ManagerInit ==
    /\ \E read_ok \in BOOLEAN, w \in WriteOutcomes, scan_ok \in BOOLEAN :
         LET loaded == load_config(config_file, read_ok, w)
         IN  /\ ~json_load(config_file).ok => read_ok
             /\ ~loaded.wrote => w = "ok"
             /\ models_config' = loaded.config
             /\ config_file' = loaded.file
             /\ available_models' = scan_models(loaded.config, artifacts, EmptyMap, scan_ok)
             /\ aliased' = IF scan_ok THEN DOMAIN loaded.config.models ELSE {}
             /\ storeOp' = [op |-> "load", read_ok |-> read_ok,
                            write |-> IF loaded.wrote THEN w ELSE "none"]
    /\ fileBefore' = config_file
    /\ UNCHANGED artifacts
    /\ storePc' = "idle"
    /\ UNCHANGED <<storeRet, configBefore, nstore, registryVars>>
    /\ UNCHANGED <<recorderVars, outputVars, toolVars>>

\* the owner of the machine replaces or deletes config.json
ConfigFileEdited ==
    /\ \E f \in Files : f # config_file /\ config_file' = f
    /\ storeOp' = [op |-> "edit", read_ok |-> TRUE, write |-> "none"]
    /\ UNCHANGED <<artifacts, models_config, available_models, fileBefore>>
    /\ UNCHANGED <<catalogVars, registryVars>>
    /\ UNCHANGED <<recorderVars, outputVars, toolVars>>

\* a model file appears under models/ or disappears
ArtifactChanged ==
    /\ \E a \in ArtifactFiles :
         artifacts' = IF a \in artifacts THEN artifacts \ {a} ELSE artifacts \cup {a}
    /\ storeOp' = [op |-> "artifact", read_ok |-> TRUE, write |-> "none"]
    /\ UNCHANGED <<config_file, models_config, available_models, fileBefore>>
    /\ detection' = NoDetection
    /\ UNCHANGED <<catalogVars, models, regPc>>
    /\ UNCHANGED <<recorderVars, outputVars, toolVars>>

(* ---------------------------------------- catalog mutations (lines 166-204) *)
\* the ids and values the callers pass
OpIds == {"yolov8n", "custom"}
Patches == {[file |-> "custom"]}
CatalogOps == {"add_model", "update_model_config", "remove_model"}

\* d[k] = v, del d[k] and d.update(patch) on Python dicts
dict_set(d, k, v) == [x \in DOMAIN d \cup {k} |-> IF x = k THEN v ELSE d[x]]
dict_del(d, k) == [x \in DOMAIN d \ {k} |-> d[x]]
dict_update(d, patch) ==
    [f \in DOMAIN d \cup DOMAIN patch |-> IF f \in DOMAIN patch THEN patch[f] ELSE d[f]]

\* a call that ends in `return False` (the id is not in the catalog, or
\* models_config has no "models" key and the KeyError is caught): nothing is
\* written and no scan runs
ReturnFalse(name) ==
    /\ storeOp' = Event(name)
    /\ storeRet' = [op |-> name, write |-> "none", ret |-> "False"]
    /\ configBefore' = empty_object
    /\ UNCHANGED <<config_file, models_config, available_models, aliased, storePc>>

\* the mutated catalog is kept in memory and handed to _save_config, whatever
\* the write does (lines 170, 183, 197)
MutateAndSave(name, cfg, w) ==
    /\ models_config' = cfg
    /\ configBefore' = models_config
    /\ config_file' = save_config(config_file, cfg, w)
    /\ storeOp' = [op |-> name, read_ok |-> TRUE, write |-> w]
    /\ storeRet' = [op |-> name, write |-> w, ret |-> "none"]
    /\ storePc' = "saved"

\* add_model, lines 168-170: the descriptor object of the caller is bound to
\* the id (an entry the classification holds for the id keeps the old object)
add_model(model_id, config, w) ==
    /\ storePc = "idle" /\ nstore < MaxStoreOps
    /\ nstore' = nstore + 1
    /\ IF "models" \in models_config.keys
       THEN /\ MutateAndSave("add_model",
                   [models_config EXCEPT !.models = dict_set(@, model_id, config)], w)
            /\ aliased' = aliased \ {model_id}
            /\ UNCHANGED available_models
       ELSE ReturnFalse("add_model")
    /\ detection' = NoDetection
    /\ UNCHANGED <<artifacts, fileBefore, models, regPc>>
    /\ UNCHANGED <<recorderVars, outputVars, toolVars>>

\* remove_model, lines 180-183 and 187
remove_model(model_id, w) ==
    /\ storePc = "idle" /\ nstore < MaxStoreOps
    /\ nstore' = nstore + 1
    /\ IF "models" \in models_config.keys /\ model_id \in DOMAIN models_config.models
       THEN /\ MutateAndSave("remove_model",
                   [models_config EXCEPT !.models = dict_del(@, model_id)], w)
            /\ aliased' = aliased \ {model_id}
            /\ UNCHANGED available_models
       ELSE ReturnFalse("remove_model")
    /\ detection' = NoDetection
    /\ UNCHANGED <<artifacts, fileBefore, models, regPc>>
    /\ UNCHANGED <<recorderVars, outputVars, toolVars>>

\* update_model_config, lines 194-197 and 201: dict.update changes the
\* descriptor object in place, so an entry of the classification that holds
\* this object (available_models[id]["config"], line 124) changes with it
update_model_config(model_id, config, w) ==
    /\ storePc = "idle" /\ nstore < MaxStoreOps
    /\ nstore' = nstore + 1
    /\ IF "models" \in models_config.keys /\ model_id \in DOMAIN models_config.models
       THEN LET updated == dict_update(models_config.models[model_id], config)
            IN  /\ MutateAndSave("update_model_config",
                       [models_config EXCEPT !.models = dict_set(@, model_id, updated)], w)
                /\ available_models' =
                       IF model_id \in aliased
                       THEN [available_models EXCEPT ![model_id].config = updated]
                       ELSE available_models
                /\ UNCHANGED aliased
       ELSE ReturnFalse("update_model_config")
    /\ detection' = NoDetection
    /\ UNCHANGED <<artifacts, fileBefore, models, regPc>>
    /\ UNCHANGED <<recorderVars, outputVars, toolVars>>

\* the rest of add_model / remove_model / update_model_config: _scan_models
\* (an exception inside it is only logged) and `return True`
ScanAndReturnTrue(scan_ok) ==
    /\ storePc = "saved"
    /\ available_models' = scan_models(models_config, artifacts, available_models, scan_ok)
    /\ aliased' = IF scan_ok THEN DOMAIN models_config.models ELSE aliased
    /\ storePc' = "idle"
    /\ storeRet' = [storeRet EXCEPT !.ret = "True"]
    /\ configBefore' = empty_object
    /\ storeOp' = [op |-> storeRet.op, read_ok |-> TRUE, write |-> storeRet.write]
    /\ detection' = NoDetection
    /\ UNCHANGED <<config_file, artifacts, models_config, fileBefore,
                   nstore, models, regPc>>
    /\ UNCHANGED <<recorderVars, outputVars, toolVars>>

(* ------------------------------------- backend registry (local_models.py) *)
\* f'yolo_{model_id}'
yolo_key(model_id) ==
    CASE model_id = "yolov8n" -> "yolo_yolov8n"
      [] model_id = "yolov8s" -> "yolo_yolov8s"
      [] model_id = "yolov8m" -> "yolo_yolov8m"
      [] model_id = "yolov8l" -> "yolo_yolov8l"
      [] model_id = "yolov8x" -> "yolo_yolov8x"
      [] OTHER -> "yolo_custom"
YoloKeys == {yolo_key(id) : id \in DefaultIds \cup {"custom"}}

\* _get_best_yolo_model, line 85
model_priority ==
    <<"yolo_yolov8n", "yolo_yolov8s", "yolo_yolov8m", "yolo_yolov8l", "yolo_yolov8x">>

\* a resolved backend / no backend (None)
Backend(key, handle) == [found |-> TRUE, key |-> key, backend |-> handle]
None == [found |-> FALSE, key |-> "", backend |-> ""]

\* self.models.get(key)
models_get(ms, key) == IF key \in DOMAIN ms THEN Backend(key, ms[key]) ELSE None

\* _get_best_yolo_model: the first key of model_priority that is loaded, else
\* self.models.get('object_detection')
RECURSIVE first_loaded(_, _)
first_loaded(ms, keys) ==
    IF keys = <<>> THEN models_get(ms, "object_detection")
    ELSE IF Head(keys) \in DOMAIN ms THEN Backend(Head(keys), ms[Head(keys)])
    ELSE first_loaded(ms, Tail(keys))

get_best_yolo_model(ms) == first_loaded(ms, model_priority)

\* detect_objects, lines 130-144: the backend the detection runs on
resolve(ms, model_id) ==
    IF model_id # ""
    THEN models_get(ms, yolo_key(model_id))
    ELSE get_best_yolo_model(ms)

\* self.models[key] = handle
models_set(ms, key, handle) ==
    [k \in DOMAIN ms \cup {key} |-> IF k = key THEN handle ELSE ms[k]]

\* _load_yolo_models: YOLO(file_path) for every entry classified available of
\* type yolov8 (a load that raises is skipped); YOLO('yolov8n.pt') as
\* 'object_detection' when no yolo_ key is loaded afterwards.  `loadable`: the
\* files YOLO() can load now, default_ok: whether YOLO('yolov8n.pt') succeeds.
load_yolo_models(ms, avail, loadable, default_ok) ==
    LET ids == {id \in DOMAIN avail :
                    /\ avail[id].status = "available"
                    /\ avail[id].config.type = "yolov8"
                    /\ avail[id].file_path \in loadable}
        byKey(k) == CHOOSE id \in ids : yolo_key(id) = k
        loaded == [k \in DOMAIN ms \cup {yolo_key(id) : id \in ids} |->
                     IF \E id \in ids : yolo_key(id) = k
                     THEN avail[byKey(k)].file_path ELSE ms[k]]
    IN  IF DOMAIN loaded \cap YoloKeys = {} /\ default_ok
        THEN models_set(loaded, "object_detection", "yolov8n.pt")
        ELSE loaded

\* _init_models, lines 33-48: the image classifier, then _load_yolo_models
init_models_head(ms, avail, ic_ok, loadable, default_ok) ==
    load_yolo_models(IF ic_ok THEN models_set(ms, "image_classification", "resnet-50") ELSE ms,
                     avail, loadable, default_ok)

\* _init_models, lines 50-57: the face detector (cv2.CascadeClassifier builds
\* an object whatever the file, so the callers pass face_ok = TRUE)
init_models_tail(ms, face_ok) ==
    IF face_ok THEN models_set(ms, "face_detection", "haarcascade") ELSE ms

\* the weight files YOLO() fails to load although they are present (damaged
\* weights): none, or the file of yolov8n.  A file that is not present fails.
BadWeights == {{}, {"yolov8n"}}

\* LocalModelManager(), run once when tools.local_models is imported (after
\* model_manager, line 13): self.models = {} and _init_models()
LocalModelManager ==
    /\ regPc = "none" /\ storePc = "idle"
    /\ \E ic_ok \in BOOLEAN, bad \in BadWeights, default_ok \in BOOLEAN :
         models' = init_models_tail(
                      init_models_head(EmptyMap, available_models, ic_ok, artifacts \ bad,
                                       default_ok),
                      TRUE)
    /\ regPc' = "idle"
    /\ UNCHANGED detection
    /\ UNCHANGED <<config_file, artifacts, models_config, available_models, fileBefore,
                   storeOp, catalogVars>>
    /\ UNCHANGED <<recorderVars, outputVars, toolVars>>

\* reload_models, line 441: self.models = {}
ReloadClear ==
    /\ regPc = "idle"
    /\ models' = EmptyMap
    /\ regPc' = "cleared"
    /\ detection' = NoDetection
    /\ UNCHANGED <<config_file, artifacts, models_config, available_models, fileBefore,
                   storeOp, catalogVars>>
    /\ UNCHANGED <<recorderVars, outputVars, toolVars>>

\* reload_models, line 444: _init_models up to _load_yolo_models, which works
\* on the classification config_manager.get_available_models() returns
ReloadLoad ==
    /\ regPc = "cleared"
    /\ \E ic_ok \in BOOLEAN, bad \in BadWeights, default_ok \in BOOLEAN :
         models' = init_models_head(models, available_models, ic_ok, artifacts \ bad, default_ok)
    /\ regPc' = "loaded"
    /\ detection' = NoDetection
    /\ UNCHANGED <<config_file, artifacts, models_config, available_models, fileBefore,
                   storeOp, catalogVars>>
    /\ UNCHANGED <<recorderVars, outputVars, toolVars>>

\* reload_models: the end of _init_models and the return (lines 446-450)
ReloadReturn ==
    /\ regPc = "loaded"
    /\ models' = init_models_tail(models, TRUE)
    /\ regPc' = "idle"
    /\ detection' = NoDetection
    /\ UNCHANGED <<config_file, artifacts, models_config, available_models, fileBefore,
                   storeOp, catalogVars>>
    /\ UNCHANGED <<recorderVars, outputVars, toolVars>>

\* the model ids a detection is asked for ("": no model_id given)
DetectIds == {"", "yolov8n", "yolov8s", "custom"}

\* get_model_config, model_manager.py line 144
get_model_config(cfg, model_id) ==
    IF model_id \in DOMAIN cfg.models
    THEN [found |-> TRUE, name |-> cfg.models[model_id].name]
    ELSE [found |-> FALSE, name |-> ""]

\* lines 150 and 185-189: 'model_used' of a successful result ("" in a failed
\* one, which has no such key); "unknown model" stands for the initial
\* value of model_name
model_name(cfg, model_id, found) ==
    IF ~found THEN ""
    ELSE IF model_id # "" /\ get_model_config(cfg, model_id).found
    THEN get_model_config(cfg, model_id).name
    ELSE "unknown model"

\* faulty variant: a model that is classified available but not loaded is
\* loaded on demand by the resolution
detect_objects_lazy(model_id) ==
    /\ regPc # "none"
    /\ LET yolo_model == resolve(models, model_id)
           lazy == /\ model_id # "" /\ ~yolo_model.found
                   /\ model_id \in DOMAIN available_models
                   /\ available_models[model_id].status = "available"
       IN  IF lazy
           THEN /\ models' = models_set(models, yolo_key(model_id),
                                        available_models[model_id].file_path)
                /\ detection' = [set |-> TRUE, model_id |-> model_id, success |-> TRUE,
                                 key |-> yolo_key(model_id),
                                 backend |-> available_models[model_id].file_path,
                                 model_used |-> model_name(models_config, model_id, TRUE)]
           ELSE /\ models' = models
                /\ detection' = [set |-> TRUE, model_id |-> model_id,
                                 success |-> yolo_model.found,
                                 key |-> yolo_model.key, backend |-> yolo_model.backend,
                                 model_used |-> model_name(models_config, model_id,
                                                           yolo_model.found)]
    /\ UNCHANGED regPc
    /\ UNCHANGED <<config_file, artifacts, models_config, available_models, fileBefore,
                   storeOp, catalogVars>>
    /\ UNCHANGED <<recorderVars, outputVars, toolVars>>

\* detect_objects, lines 130-144 and 185-195: the backend resolution of one
\* detection and the model name its result carries
detect_objects(model_id) ==
    /\ regPc # "none"
    /\ LET yolo_model == resolve(models, model_id)
       IN  detection' = [set |-> TRUE, model_id |-> model_id, success |-> yolo_model.found,
                         key |-> yolo_model.key, backend |-> yolo_model.backend,
                         model_used |-> model_name(models_config, model_id, yolo_model.found)]
    /\ UNCHANGED <<models, regPc>>
    /\ UNCHANGED <<config_file, artifacts, models_config, available_models, fileBefore,
                   storeOp, catalogVars>>
    /\ UNCHANGED <<recorderVars, outputVars, toolVars>>

(* ------------------------------ detection output (local_models.py 153-179) *)
\* Raw numbers are kept as integers: a confidence c as c * 10^5, a coordinate
\* x as x * 10 (one decimal); a rendered confidence p as p * 100 (two decimals).
Confidences == {0, 50000, 86750, 86754, 86755, 86756, 99999, 100000}
CoordValues == {-15, -10, -5, 0, 59, 102}
Boxes == {<<x1, y1, 1004, 801>> : x1 \in CoordValues, y1 \in CoordValues}
RawBoxes == [conf : Confidences, xyxy : Boxes]

\* round(conf * 100, 2), line 169: the nearest value with two decimals.  A
\* decimal tie is not a tie for the binary float, which lies on one side of
\* it: tie_up says on which.
round2(conf, tie_up) ==
    LET q == conf \div 10
        r == conf % 10
    IN  IF r < 5 THEN q
        ELSE IF r > 5 THEN q + 1
        ELSE IF tie_up THEN q + 1 ELSE q

\* int(x), line 170: the fraction is cut off (towards zero)
py_int(x) == IF x >= 0 THEN x \div 10 ELSE -((-x) \div 10)

\* lines 167-171: the detection built from one raw output
NormalizeBox ==
    /\ ~detection_info.set
    /\ box # NoBox
    /\ \E tie_up \in BOOLEAN :
         detection_info' = [set |-> TRUE,
                            confidence |-> round2(box.conf, tie_up),
                            bbox |-> <<py_int(box.xyxy[1]), py_int(box.xyxy[2]),
                                      py_int(box.xyxy[3]), py_int(box.xyxy[4])>>]
    /\ UNCHANGED box
    /\ UNCHANGED <<config_file, artifacts, models_config, available_models, fileBefore,
                   storeOp, catalogVars, registryVars>>
    /\ UNCHANGED <<recorderVars, toolVars>>

\* line 156, `for box in boxes`: the next raw output of the detector
NextBox ==
    /\ detection_info.set
    /\ \E b \in RawBoxes : box' = b
    /\ detection_info' = NoInfo
    /\ UNCHANGED <<config_file, artifacts, models_config, available_models, fileBefore,
                   storeOp, catalogVars, registryVars>>
    /\ UNCHANGED <<recorderVars, toolVars>>

(* ---------------- annotation of a detection result (local_models.py 181-283) *)
\* detections in one result
MaxDetections == 11
\* len(colors), lines 226-237
PaletteSize == 10
\* the weight of the coloured mask in cv2.addWeighted, in percent (line 272)
MaskAlpha == 30

\* a detection as the renderer sees it: with or without a "mask" key
DetectionLists ==
    UNION { [1..n -> [has_mask : BOOLEAN]] : n \in 0..MaxDetections }

\* one thing drawn on the canvas: its colour is an index into the palette,
\* alpha is the weight it is laid over what was drawn before
Layer(kind, i, alpha) ==
    [kind |-> kind, det |-> i, color |-> i % PaletteSize, alpha |-> alpha]

\* one pass of the loop body, lines 240-272: the box (247), the label
\* background (258), the label (261), then the mask over the whole image (272)
draw_detection(img, i, det) ==
    img \o <<Layer("box", i, 100), Layer("label_bg", i, 100), Layer("label", i, 100)>>
        \o (IF det.has_mask THEN <<Layer("mask", i, MaskAlpha)>> ELSE <<>>)

NoAnnotated ==
    [set |-> FALSE, success |-> FALSE, detections |-> <<>>, annotated_image |-> "",
     written |-> FALSE, failure |-> "none"]

\* lines 191-207: the result of detect_objects; 'annotated_image' is set only
\* for a truthy path ("" stands for the absent key)
detect_objects_result(dets, annotated_image_path, written, failure) ==
    [set |-> TRUE, success |-> TRUE, detections |-> dets,
     annotated_image |-> annotated_image_path, written |-> written, failure |-> failure]

AnnotIdle ==
    /\ detections = <<>>
    /\ image = <<>>
    /\ drawPc = "none"
    /\ draw_i = 0
    /\ annotated = NoAnnotated

\* detect_objects lines 181-183 and _draw_detections lines 219-223: the
\* renderer is entered only when asked for; cv2.imread gives None for an
\* unreadable file
DrawDetectionsBegin ==
    /\ drawPc = "idle"
    /\ \E draw_boxes \in BOOLEAN, save_annotated \in BOOLEAN, imread \in {"ok", "none"} :
         IF ~(draw_boxes \/ save_annotated)
         THEN /\ drawPc' = "done"
              /\ annotated' = detect_objects_result(detections, "", FALSE, "none")
         ELSE IF imread = "none"
         THEN /\ drawPc' = "done"
              /\ annotated' = detect_objects_result(detections, "", FALSE, "imread")
         ELSE /\ drawPc' = "loop"
              /\ annotated' = annotated
    /\ UNCHANGED <<detections, image, draw_i>>
    /\ UNCHANGED <<recorderVars, modelVars, cameraVars, commandVars, aliasVars>>

\* one iteration of `for i, detection in enumerate(detections)`; the mask
\* steps (np.array, cv2.resize, the boolean index) raise on a mask that does
\* not fit, and the except clause of line 281 turns that into None
DrawDetection ==
    /\ drawPc = "loop"
    /\ draw_i < Len(detections)
    /\ \E raises \in BOOLEAN :
         IF raises /\ detections[draw_i + 1].has_mask
         THEN /\ drawPc' = "done"
              /\ annotated' = detect_objects_result(detections, "", FALSE, "draw")
              /\ UNCHANGED <<image, draw_i>>
         ELSE /\ image' = draw_detection(image, draw_i, detections[draw_i + 1])
              /\ draw_i' = draw_i + 1
              /\ UNCHANGED <<drawPc, annotated>>
    /\ UNCHANGED detections
    /\ UNCHANGED <<recorderVars, modelVars, cameraVars, commandVars, aliasVars>>

\* lines 274-279 and detect_objects lines 191-207: cv2.imwrite writes the
\* file, or returns False without writing, or raises
ImwriteOutcomes == {"ok", "false", "raise"}

DrawSave ==
    /\ drawPc = "loop"
    /\ draw_i = Len(detections)
    /\ \E w \in ImwriteOutcomes :
         annotated' =
            IF w = "raise"
            THEN detect_objects_result(detections, "", FALSE, "imwrite raised")
            ELSE IF w = "false"
            THEN detect_objects_result(detections, "detection_result.jpg", FALSE,
                                       "imwrite failed")
            ELSE detect_objects_result(detections, "detection_result.jpg", TRUE, "none")
    /\ drawPc' = "done"
    /\ UNCHANGED <<detections, image, draw_i>>
    /\ UNCHANGED <<recorderVars, modelVars, cameraVars, commandVars, aliasVars>>

(* ------------------------------------- camera (src/tools/camera_tools.py) *)
\* cv2.VideoCapture objects created in one behaviour
MaxOpens == 2
\* delayed_close threads sleeping at the same time
MaxTimers == 1
\* the longest recording, in iterations of the record_video loop
MaxDuration == 2

\* self.camera: None is handle 0; a VideoCapture that failed to open is a
\* handle that is not opened (line 38 binds it before line 41 tests it)
NoCamera == [id |-> 0, opened |-> FALSE]
NoThread == [state |-> "none", elapsed |-> 0, duration |-> 0]
FinishedThread == [state |-> "finished", elapsed |-> 0, duration |-> 0]

\* the fields of the manager that the methods below work on
CameraState ==
    [camera |-> camera, is_recording |-> is_recording,
     recording_thread |-> recording_thread, released |-> released]

\* stop_recording, lines 193-212.  join(timeout=5) returns once record_video
\* has seen the flag: one iteration of its loop lasts 1/fps seconds, so the
\* thread has run its finally clause (lines 173-175) when join returns.
stop_recording(st) ==
    IF ~st.is_recording THEN st
    ELSE [st EXCEPT !.is_recording = FALSE,
                    !.recording_thread =
                        IF @.state = "running" THEN FinishedThread ELSE @]

\* close_camera, lines 52-68
close_camera(st) ==
    IF st.camera = NoCamera THEN st
    ELSE LET stopped == IF st.is_recording THEN stop_recording(st) ELSE st
         IN  [stopped EXCEPT !.released = @ \cup {st.camera.id},
                             !.camera = NoCamera]

\* open_camera, lines 32-50: `n` is the new VideoCapture, `ok` its isOpened()
open_camera(st, n, ok) ==
    LET closed == IF st.camera # NoCamera THEN close_camera(st) ELSE st
    IN  [closed EXCEPT !.camera = [id |-> n, opened |-> ok]]

\* the manager after a method ran
SetCamera(st) ==
    /\ camera' = st.camera
    /\ is_recording' = st.is_recording
    /\ recording_thread' = st.recording_thread
    /\ released' = st.released

CameraIdle ==
    /\ camera = NoCamera
    /\ is_recording = FALSE
    /\ recording_thread = NoThread
    /\ close_threads = 0
    /\ released = {}
    /\ nopen = 0
    /\ camOp = "none"

CameraFrame == UNCHANGED <<recorderVars, modelVars, annotVars, commandVars, aliasVars>>

\* a caller of open_camera (the method is public; lines 92 and 136 call it too)
OpenCamera ==
    /\ nopen < MaxOpens
    /\ \E ok \in BOOLEAN : SetCamera(open_camera(CameraState, nopen + 1, ok))
    /\ nopen' = nopen + 1
    /\ camOp' = "open_camera"
    /\ UNCHANGED close_threads
    /\ CameraFrame

\* CloseCameraTool with delay_seconds = 0 (langchain_agent.py line 899)
CloseCamera ==
    /\ SetCamera(close_camera(CameraState))
    /\ camOp' = "close_camera"
    /\ UNCHANGED <<close_threads, nopen>>
    /\ CameraFrame

\* auto_close_camera, lines 70-86: starts a thread that sleeps, then closes
AutoCloseCamera ==
    /\ close_threads < MaxTimers
    /\ close_threads' = close_threads + 1
    /\ camOp' = "auto_close_camera"
    /\ UNCHANGED <<camera, is_recording, recording_thread, released, nopen>>
    /\ CameraFrame

\* delayed_close, lines 76-78: the sleep is over
DelayedClose ==
    /\ close_threads > 0
    /\ close_threads' = close_threads - 1
    /\ SetCamera(close_camera(CameraState))
    /\ camOp' = "delayed_close"
    /\ UNCHANGED nopen
    /\ CameraFrame

\* take_photo, lines 88-130
TakePhoto ==
    /\ camera = NoCamera => nopen < MaxOpens
    /\ \E ok \in BOOLEAN, auto_close \in BOOLEAN :
         LET st == IF camera = NoCamera
                   THEN open_camera(CameraState, nopen + 1, ok)
                   ELSE CameraState
             taken == st.camera.opened
         IN  /\ SetCamera(st)
             /\ nopen' = IF camera = NoCamera THEN nopen + 1 ELSE nopen
             /\ (taken /\ auto_close) => close_threads < MaxTimers
             /\ close_threads' =
                   IF taken /\ auto_close THEN close_threads + 1 ELSE close_threads
    /\ camOp' = "take_photo"
    /\ CameraFrame

\* start_recording, lines 132-191
StartRecording ==
    /\ camera = NoCamera => nopen < MaxOpens
    /\ \E ok \in BOOLEAN, duration \in 1..MaxDuration :
         LET st == IF camera = NoCamera
                   THEN open_camera(CameraState, nopen + 1, ok)
                   ELSE CameraState
         IN  /\ nopen' = IF camera = NoCamera THEN nopen + 1 ELSE nopen
             /\ IF (camera = NoCamera /\ ~ok) \/ st.is_recording
                THEN SetCamera(st)
                ELSE SetCamera([st EXCEPT !.is_recording = TRUE,
                                          !.recording_thread =
                                              [state |-> "running", elapsed |-> 0,
                                               duration |-> duration]])
    /\ camOp' = "start_recording"
    /\ UNCHANGED close_threads
    /\ CameraFrame

\* the stop_recording tool (langchain_agent.py line 838)
StopRecording ==
    /\ SetCamera(stop_recording(CameraState))
    /\ camOp' = "stop_recording"
    /\ UNCHANGED <<close_threads, nopen>>
    /\ CameraFrame

\* record_video, lines 166-172: one iteration of the loop; a handle that
\* gives no frame breaks out of it into the finally clause
RecordFrame ==
    /\ recording_thread.state = "running"
    /\ is_recording
    /\ recording_thread.elapsed < recording_thread.duration
    /\ IF camera.opened
       THEN /\ recording_thread' = [recording_thread EXCEPT !.elapsed = @ + 1]
            /\ camOp' = "record_video frame"
            /\ UNCHANGED is_recording
       ELSE /\ recording_thread' = FinishedThread
            /\ is_recording' = FALSE
            /\ camOp' = "record_video no frame"
    /\ UNCHANGED <<camera, close_threads, released, nopen>>
    /\ CameraFrame

\* record_video, lines 166 and 173-176: the duration is over
RecordElapsed ==
    /\ recording_thread.state = "running"
    /\ recording_thread.elapsed >= recording_thread.duration
    /\ recording_thread' = FinishedThread
    /\ is_recording' = FALSE
    /\ camOp' = "record_video elapsed"
    /\ UNCHANGED <<camera, close_threads, released, nopen>>
    /\ CameraFrame

(* --------------------- system_command (langchain_agent.py lines 227-305) *)
\* A command line is a sequence of fragments; `x in command.lower()` and
\* startswith are decided fragment by fragment, equality of two command
\* lines is equality of the strings (case included).
Commands ==
    { <<"shutdown">>, <<"shutdown", "/s">>, <<"Shutdown", "/s">>,
      <<"shutdown", "rm -rf">>,
      <<"format">>, <<"del /s">>, <<"rm -rf">>, <<"taskkill /f">>,
      <<"dir">>, <<"dir", "*python*">>, <<"ping">> }

NoCommand == <<>>

\* str.lower() of a fragment
lower(f) == IF f = "Shutdown" THEN "shutdown" ELSE f

\* `sub in command.lower()`
contains(command, sub) == \E i \in 1..Len(command) : lower(command[i]) = sub

\* line 254
dangerous_commands == {"format", "del /s", "rm -rf", "taskkill /f"}

\* lines 259-273: a dir search for one of the known patterns is replaced by
\* the search of drive D
optimize_dir(command) ==
    IF lower(command[1]) = "dir" /\ contains(command, "*python*")
    THEN <<"dir /s /b", "D:\\*python*">>
    ELSE command

\* what subprocess.run can do with a command
ShellOutcomes == {"returncode 0", "returncode 1", "raised"}

\* faulty variant: the confirmed command stays pending (no `del`, line 246)
SystemCommandTool_original_run_keep(pending, command, outcome) ==
    IF contains(command, "shutdown")
    THEN IF command \in pending
         THEN [pending |-> pending, shell_call |-> command,
               reply |-> <<"shutdown", outcome>>]
         ELSE [pending |-> pending \cup {command}, shell_call |-> NoCommand,
               reply |-> <<"confirm", "">>]
    ELSE IF \E d \in dangerous_commands : contains(command, d)
    THEN [pending |-> pending, shell_call |-> NoCommand, reply |-> <<"forbidden", "">>]
    ELSE [pending |-> pending, shell_call |-> optimize_dir(command),
          reply |-> <<"command", outcome>>]

\* SystemCommandTool._original_run with _execute_shutdown: `pending` is
\* pending_commands, the result is pending_commands afterwards, the command
\* handed to subprocess.run (NoCommand: none) and the kind of reply
SystemCommandTool_original_run(pending, command, outcome) ==
    IF contains(command, "shutdown")
    THEN IF command \in pending
         THEN [pending |-> pending \ {command}, shell_call |-> command,
               reply |-> <<"shutdown", outcome>>]
         ELSE [pending |-> pending \cup {command}, shell_call |-> NoCommand,
               reply |-> <<"confirm", "">>]
    ELSE IF \E d \in dangerous_commands : contains(command, d)
    THEN [pending |-> pending, shell_call |-> NoCommand, reply |-> <<"forbidden", "">>]
    ELSE [pending |-> pending, shell_call |-> optimize_dir(command),
          reply |-> <<"command", outcome>>]

CommandIdle ==
    /\ pending_commands = {}
    /\ submitted = NoCommand
    /\ shell_call = NoCommand
    /\ reply = <<"none", "">>

\* one call of the tool
SystemCommand(command) ==
    /\ \E outcome \in ShellOutcomes :
         LET r == SystemCommandTool_original_run(pending_commands, command, outcome)
         IN  /\ pending_commands' = r.pending
             /\ shell_call' = r.shell_call
             /\ reply' = r.reply
    /\ submitted' = command
    /\ UNCHANGED <<recorderVars, modelVars, annotVars, cameraVars, aliasVars>>

(* ---- keyword aliases (langchain_agent.py lines 317-332, 381-412, 712-732) *)
\* keyword arguments in one call
MaxKeywords == 2

\* the keyword arguments a caller may give, each with a value of its own
KeywordArgs ==
    { <<"file_path", "fp.txt">>, <<"path", "p.txt">>, <<"search_path", "sp">>,
      <<"options", "opt">>, <<"keyword", "kw">>, <<"query", "q">>,
      <<"name", "n.txt">> }

\* calls: up to MaxKeywords keyword arguments with different names, in the
\* order the caller wrote them
KeywordCalls ==
    { kw \in UNION { [1..n -> KeywordArgs] : n \in 0..MaxKeywords } :
        \A i, j \in 1..Len(kw) : i # j => kw[i][1] # kw[j][1] }

\* Python's binding of a call to `def f(p1=None, ..., **kwargs)`: a keyword
\* that names a parameter is bound to it, the others are collected, in
\* order, in kwargs.  None is "".
param(kw, name) == Lookup(kw, name)
RECURSIVE rest_kwargs(_, _)
rest_kwargs(kw, params) ==
    IF kw = <<>> THEN <<>>
    ELSE IF Head(kw)[1] \in params THEN rest_kwargs(Tail(kw), params)
    ELSE <<Head(kw)>> \o rest_kwargs(Tail(kw), params)

\* lines 321-329 and 719-727, on the bound parameter and the collected kwargs
resolve_file_path(file_path, kwargs) ==
    IF HasKey(kwargs, "file_path") THEN Lookup(kwargs, "file_path")
    ELSE IF HasKey(kwargs, "path") THEN Lookup(kwargs, "path")
    ELSE IF file_path = "" /\ kwargs # <<>> THEN kwargs[1][2]
    ELSE file_path

NoResolved == [set |-> FALSE, file_path |-> "", query |-> "", options |-> ""]

\* FileOperationTool._original_run(operation, file_path=None, content=None, **kwargs)
FileOperationTool_original_run(kw) ==
    [set |-> TRUE,
     file_path |-> resolve_file_path(param(kw, "file_path"),
                                     rest_kwargs(kw, {"operation", "file_path", "content"})),
     query |-> "", options |-> ""]

\* DocumentReadTool._original_run(file_path=None, include_summary=True, **kwargs)
DocumentReadTool_original_run(kw) ==
    [set |-> TRUE,
     file_path |-> resolve_file_path(param(kw, "file_path"),
                                     rest_kwargs(kw, {"file_path", "include_summary"})),
     query |-> "", options |-> ""]

\* CommandLineSearchTool._original_run(search_type=None, query=None,
\* options=None, **kwargs), lines 388-407
CommandLineSearchTool_original_run(kw) ==
    LET kwargs == rest_kwargs(kw, {"search_type", "query", "options"})
        query == param(kw, "query")
        options == param(kw, "options")
    IN  [set |-> TRUE, file_path |-> "",
         query |-> IF HasKey(kwargs, "keyword") THEN Lookup(kwargs, "keyword")
                   ELSE IF HasKey(kwargs, "query") THEN Lookup(kwargs, "query")
                   ELSE IF query = "" /\ kwargs # <<>> THEN kwargs[1][2]
                   ELSE query,
         options |-> IF HasKey(kwargs, "path") THEN Lookup(kwargs, "path")
                     ELSE IF HasKey(kwargs, "search_path") THEN Lookup(kwargs, "search_path")
                     ELSE IF HasKey(kwargs, "options") THEN Lookup(kwargs, "options")
                     ELSE options]

NoToolCall == [tool |-> "", kwargs |-> <<>>]

AliasIdle ==
    /\ toolCall = NoToolCall
    /\ resolved = NoResolved

AliasFrame == UNCHANGED <<recorderVars, modelVars, annotVars, cameraVars, commandVars>>

FileOperation ==
    /\ toolCall.tool = "file_operation"
    /\ ~resolved.set
    /\ resolved' = FileOperationTool_original_run(toolCall.kwargs)
    /\ UNCHANGED toolCall
    /\ AliasFrame

DocumentRead ==
    /\ toolCall.tool = "document_read"
    /\ ~resolved.set
    /\ resolved' = DocumentReadTool_original_run(toolCall.kwargs)
    /\ UNCHANGED toolCall
    /\ AliasFrame

CmdSearch ==
    /\ toolCall.tool = "cmd_search"
    /\ ~resolved.set
    /\ resolved' = CommandLineSearchTool_original_run(toolCall.kwargs)
    /\ UNCHANGED toolCall
    /\ AliasFrame

ToolsIdle == AnnotIdle /\ CameraIdle /\ CommandIdle /\ AliasIdle

RecorderInit ==
    /\ heap = [ref \in Refs |-> <<>>]
    /\ pc = [r \in Requests |-> "idle"]
    /\ entry = [r \in Requests |-> ""]
    /\ call = [r \in Requests |-> NoCall]
    /\ runResult = [r \in Requests |-> NoRun]
    /\ result = [r \in Requests |-> NoResult]
    /\ ncalls = 0
    /\ attempts = [r \in Requests |-> <<>>]
    /\ resets = [r \in Requests |-> 0]
    /\ owners = [ref \in Refs |-> <<>>]
    /\ snapVal = [r \in Requests |-> <<>>]
    /\ ops = <<>>

\* the audit layer alone, the store left as the process found it
Init ==
    /\ RecorderInit
    /\ agent \in BOOLEAN
    /\ StoreInit
    /\ config_file = Absent
    /\ ToolsIdle

\* the store alone
StoreStart ==
    /\ RecorderInit
    /\ agent = TRUE
    /\ StoreInit
    /\ ToolsIdle

\* requests are taken in the order of their ids (ids are only labels)
CanBegin(r) == pc[r] = "idle" /\ (IF r = 1 THEN TRUE ELSE pc[r - 1] # "idle")

\* get_tool_calls() by request r, and the dict the entry point returns
Snapshot(r, ok) ==
    LET got == get_tool_calls(heap, NewRef(r))
    IN  /\ heap' = got.heap
        /\ owners' = [owners EXCEPT ![got.ref] = owners[tool_calls_ref]]
        /\ result' = [result EXCEPT ![r] =
               [set |-> TRUE, success |-> ok, has_calls |-> TRUE, tool_calls |-> got.ref]]
        /\ snapVal' = [snapVal EXCEPT ![r] = got.heap[got.ref]]
        /\ ops' = Last2(Append(ops, Op("get", got.ref, 0)))

\* UnifiedLangChainAgent.chat_with_tool_calls up to agent.run (lines 1461-1473):
\* without an agent it returns a fresh empty list, else it clears the recorder
ChatWithToolCallsBegin(r) ==
    /\ CanBegin(r)
    /\ entry' = [entry EXCEPT ![r] = "chat_with_tool_calls"]
    /\ IF ~agent
       THEN /\ result' = [result EXCEPT ![r] =
                   [set |-> TRUE, success |-> FALSE, has_calls |-> TRUE,
                    tool_calls |-> NewRef(r)]]
            /\ pc' = [pc EXCEPT ![r] = "done"]
            /\ UNCHANGED <<heap, owners, resets, ops>>
       ELSE /\ heap' = [heap EXCEPT ![tool_calls_ref] = clear_tool_calls(@)]
            /\ owners' = [owners EXCEPT ![tool_calls_ref] =
                   SubSeq(@, Len(@) - Len(heap'[tool_calls_ref]) + 1, Len(@))]
            /\ resets' = [resets EXCEPT ![r] = @ + 1]
            /\ ops' = Last2(Append(ops, Op("clear", 0, Len(heap[tool_calls_ref]))))
            /\ pc' = [pc EXCEPT ![r] = "run"]
            /\ UNCHANGED result
    /\ UNCHANGED <<agent, call, runResult, ncalls, attempts, snapVal>>
    /\ UNCHANGED storeVars

\* UnifiedLangChainAgent.chat up to agent.run (lines 1445-1450): no reset
ChatBegin(r) ==
    /\ CanBegin(r)
    /\ entry' = [entry EXCEPT ![r] = "chat"]
    /\ IF ~agent
       THEN /\ result' = [result EXCEPT ![r] =
                   [set |-> TRUE, success |-> FALSE, has_calls |-> FALSE, tool_calls |-> 0]]
            /\ pc' = [pc EXCEPT ![r] = "done"]
       ELSE /\ pc' = [pc EXCEPT ![r] = "run"]
            /\ UNCHANGED result
    /\ UNCHANGED <<heap, agent, call, runResult, ncalls, attempts, resets, owners,
                   snapVal, ops>>
    /\ UNCHANGED storeVars

\* The effect of one RecordableTool._run by request r on the recorder and on
\* what r holds.  _original_run does not touch the recorder, so the call takes
\* effect at the moment its record is appended.
RunTool(r, c, engine_ok) ==
    LET out == RecordableTool_run(heap[tool_calls_ref], c, engine_ok)
        res == original_run(c, engine_ok)
    IN  /\ heap' = [heap EXCEPT ![tool_calls_ref] = out.calls]
        /\ owners' = [owners EXCEPT ![tool_calls_ref] =
              IF Len(out.calls) > Len(heap[tool_calls_ref]) THEN Append(@, r) ELSE @]
        /\ call' = [call EXCEPT ![r] = c]
        /\ runResult' = [runResult EXCEPT ![r] = out.result]
        /\ attempts' = [attempts EXCEPT ![r] =
              Append(@, [tool |-> c.tool, outcome |-> res.kind,
                         args |-> c.args, kwargs |-> c.kwargs,
                         exc |-> IF res.kind = "raise" THEN res.value ELSE ""])]
        /\ ops' = Last2(Append(ops, Op("record", 0, 0)))
        /\ ncalls' = ncalls + 1

\* the /api/text_to_speech endpoint (app_flask.py lines 238-273):
\* TextToSpeechTool()._run(text), outside any turn, then the response
TextToSpeechEndpoint(r) ==
    /\ CanBegin(r)
    /\ ncalls < MaxCalls
    /\ entry' = [entry EXCEPT ![r] = "text_to_speech"]
    /\ \E engine_ok \in BOOLEAN :
         /\ RunTool(r, [tool |-> "text_to_speech", args |-> <<"hello">>,
                        kwargs |-> <<>>], engine_ok)
         /\ result' = [result EXCEPT ![r] =
               [set |-> TRUE,
                success |-> runResult'[r].kind = "return"
                            /\ runResult'[r].value = "tts ok",
                has_calls |-> FALSE, tool_calls |-> 0]]
    /\ pc' = [pc EXCEPT ![r] = "done"]
    /\ UNCHANGED <<agent, resets, snapVal>>
    /\ UNCHANGED storeVars

\* agent.run executes a tool through RecordableTool._run.  After a return the
\* planner goes on; after a raise the exception leaves agent.run (propagate)
\* or the planner handles it and goes on.
AgentTool(r) ==
    /\ pc[r] = "run"
    /\ ncalls < MaxCalls
    /\ \E c \in AgentCalls, engine_ok \in BOOLEAN, propagate \in BOOLEAN :
         /\ RunTool(r, c, engine_ok)
         /\ c.tool # "text_to_speech" => engine_ok
         /\ IF runResult'[r].kind = "return"
            THEN propagate /\ pc' = [pc EXCEPT ![r] = "run"]
            ELSE pc' = [pc EXCEPT ![r] = IF propagate THEN "except" ELSE "run"]
    /\ UNCHANGED <<agent, entry, result, resets, snapVal>>
    /\ UNCHANGED storeVars

\* agent.run returns: lines 1476-1485 (chat_with_tool_calls), 1453-1454 (chat)
AgentRunReturns(r) ==
    /\ pc[r] = "run"
    /\ IF entry[r] = "chat_with_tool_calls"
       THEN Snapshot(r, TRUE)
       ELSE /\ result' = [result EXCEPT ![r] =
                   [set |-> TRUE, success |-> TRUE, has_calls |-> FALSE, tool_calls |-> 0]]
            /\ UNCHANGED <<heap, owners, snapVal, ops>>
    /\ pc' = [pc EXCEPT ![r] = "done"]
    /\ UNCHANGED <<agent, entry, call, runResult, ncalls, attempts, resets>>
    /\ UNCHANGED storeVars

\* agent.run raised: the except branch, lines 1487-1492 (chat_with_tool_calls),
\* 1456-1457 (chat)
ExceptHandler(r) ==
    /\ pc[r] = "except"
    /\ IF entry[r] = "chat_with_tool_calls"
       THEN Snapshot(r, FALSE)
       ELSE /\ result' = [result EXCEPT ![r] =
                   [set |-> TRUE, success |-> FALSE, has_calls |-> FALSE, tool_calls |-> 0]]
            /\ UNCHANGED <<heap, owners, snapVal, ops>>
    /\ pc' = [pc EXCEPT ![r] = "done"]
    /\ UNCHANGED <<agent, entry, call, runResult, ncalls, attempts, resets>>
    /\ UNCHANGED storeVars

\* the web server handles requests on separate threads (threaded=True)
Next ==
    \/ \E r \in Requests : ChatWithToolCallsBegin(r)
    \/ \E r \in Requests : ChatBegin(r)
    \/ \E r \in Requests : TextToSpeechEndpoint(r)
    \/ \E r \in Requests : AgentTool(r)
    \/ \E r \in Requests : AgentRunReturns(r)
    \/ \E r \in Requests : ExceptHandler(r)

Spec == Init /\ [][Next]_vars

\* the reference behaviour: one request is handled fully before the next
Quiet(r) == \A q \in Requests \ {r} : pc[q] \in {"idle", "done"}

SeqNext ==
    \/ \E r \in Requests : Quiet(r) /\ ChatWithToolCallsBegin(r)
    \/ \E r \in Requests : Quiet(r) /\ ChatBegin(r)
    \/ \E r \in Requests : Quiet(r) /\ TextToSpeechEndpoint(r)
    \/ \E r \in Requests : Quiet(r) /\ AgentTool(r)
    \/ \E r \in Requests : Quiet(r) /\ AgentRunReturns(r)
    \/ \E r \in Requests : Quiet(r) /\ ExceptHandler(r)

SpecSeq == Init /\ [][SeqNext]_vars

StoreNext ==
    \/ ManagerInit
    \/ ConfigFileEdited
    \/ ArtifactChanged

SpecStore == StoreStart /\ [][StoreNext]_vars

\* the loop over the raw outputs of one detection
OutputStart ==
    /\ RecorderInit
    /\ agent = TRUE
    /\ config_file = Absent
    /\ artifacts = {}
    /\ models_config = empty_object
    /\ available_models = EmptyMap
    /\ fileBefore = Absent
    /\ storeOp = NoStoreOp
    /\ aliased = {}
    /\ storePc = "none"
    /\ storeRet = NoReturn
    /\ configBefore = empty_object
    /\ nstore = 0
    /\ models = EmptyMap
    /\ regPc = "none"
    /\ detection = NoDetection
    /\ box \in {b \in RawBoxes : b.conf = 86750}
    /\ detection_info = NoInfo
    /\ ToolsIdle

OutputNext ==
    \/ NormalizeBox
    \/ NextBox

SpecOutput == OutputStart /\ [][OutputNext]_vars

\* the catalog calls on the store built at import, with every outcome of the
\* write and of the scan
CatalogNext ==
    \/ (storePc = "none" /\ ManagerInit)
    \/ ArtifactChanged
    \/ \E id \in OpIds, w \in WriteOutcomes : add_model(id, Descriptor(id), w)
    \/ \E id \in OpIds, w \in WriteOutcomes : remove_model(id, w)
    \/ \E id \in OpIds, patch \in Patches, w \in WriteOutcomes :
           update_model_config(id, patch, w)
    \/ \E scan_ok \in BOOLEAN : ScanAndReturnTrue(scan_ok)

SpecCatalog == StoreStart /\ [][CatalogNext]_vars

\* the registry on top of a store that was built from a readable config.json
\* (or from none) and whose disk works: catalog calls, reloads and detections
\* come from the request threads
RegistryStart ==
    /\ RecorderInit
    /\ agent = TRUE
    /\ \E doc \in {default_config, user_config}, arts \in SUBSET ArtifactFiles :
         /\ models_config = doc
         /\ config_file = json_dump(doc)
         /\ artifacts = arts
         /\ available_models = scan_models(doc, arts, EmptyMap, TRUE)
         /\ aliased = DOMAIN doc.models
    /\ fileBefore = Absent
    /\ storeOp = NoStoreOp
    /\ storePc = "idle"
    /\ storeRet = NoReturn
    /\ configBefore = empty_object
    /\ nstore = 0
    /\ models = EmptyMap
    /\ regPc = "none"
    /\ detection = NoDetection
    /\ box = NoBox
    /\ detection_info = NoInfo
    /\ ToolsIdle

RegistryNext ==
    \/ ArtifactChanged
    \/ \E id \in OpIds : add_model(id, Descriptor(id), "ok")
    \/ \E id \in OpIds : remove_model(id, "ok")
    \/ \E id \in OpIds, patch \in Patches : update_model_config(id, patch, "ok")
    \/ ScanAndReturnTrue(TRUE)
    \/ LocalModelManager
    \/ ReloadClear
    \/ ReloadLoad
    \/ ReloadReturn
    \/ \E id \in DetectIds : detect_objects(id)

SpecRegistry == RegistryStart /\ [][RegistryNext]_vars

\* the rendering of detection results: every detection list, then the loop
AnnotateStart ==
    /\ RecorderInit
    /\ agent = TRUE
    /\ StoreInit
    /\ config_file = Absent
    /\ detections \in DetectionLists
    /\ image = <<>>
    /\ drawPc = "idle"
    /\ draw_i = 0
    /\ annotated = NoAnnotated
    /\ CameraIdle /\ CommandIdle /\ AliasIdle

AnnotateNext ==
    \/ DrawDetectionsBegin
    \/ DrawDetection
    \/ DrawSave

SpecAnnotate == AnnotateStart /\ [][AnnotateNext]_vars

\* every tool at rest
ToolsStart ==
    /\ RecorderInit
    /\ agent = TRUE
    /\ StoreInit
    /\ config_file = Absent
    /\ ToolsIdle

\* the camera manager: its methods, the delayed close and the recording thread
CameraNext ==
    \/ OpenCamera
    \/ CloseCamera
    \/ AutoCloseCamera
    \/ DelayedClose
    \/ TakePhoto
    \/ StartRecording
    \/ StopRecording
    \/ RecordFrame
    \/ RecordElapsed

SpecCamera == ToolsStart /\ [][CameraNext]_vars

\* system_command: any sequence of submissions
CommandNext == \E command \in Commands : SystemCommand(command)

SpecCommand == ToolsStart /\ [][CommandNext]_vars

\* the alias resolution of the three tools on every call
AliasStart ==
    /\ RecorderInit
    /\ agent = TRUE
    /\ StoreInit
    /\ config_file = Absent
    /\ toolCall \in [tool : {"file_operation", "document_read", "cmd_search"},
                     kwargs : KeywordCalls]
    /\ resolved = NoResolved
    /\ AnnotIdle /\ CameraIdle /\ CommandIdle

AliasNext ==
    \/ FileOperation
    \/ DocumentRead
    \/ CmdSearch

SpecAlias == AliasStart /\ [][AliasNext]_vars

(* ------------------------------------------------------------- claims    *)
LastOf(s) == s[Len(s)]

\* list `ref` holds exactly the records of the calls request r attempted, in
\* call order
HoldsAttemptsOf(ref, r) ==
    /\ Len(heap[ref]) = Len(attempts[r])
    /\ \A i \in 1..Len(heap[ref]) :
         /\ i <= Len(attempts[r])
         /\ heap[ref][i].tool = attempts[r][i].tool
         /\ owners[ref][i] = r
         /\ Truthy(attempts[r][i].kwargs)
              => heap[ref][i].input = PyDict(attempts[r][i].kwargs)

\* C1: in the sequential reference behaviour, a chat_with_tool_calls turn that
\* attempted N tool executions (returning or raising, in any mix) has exactly
\* N records, the i-th being the record of the i-th attempted call: in the
\* live list while the turn runs, in the returned history when it is done.
C1_HistoryHoldsEveryAttempt ==
    \A r \in Requests :
        entry[r] = "chat_with_tool_calls" =>
            /\ pc[r] \in {"run", "except"} => HoldsAttemptsOf(tool_calls_ref, r)
            /\ pc[r] = "done" => HoldsAttemptsOf(result[r].tool_calls, r)

C1_Witness ==
    \E r \in Requests :
        /\ entry[r] = "chat_with_tool_calls" /\ pc[r] = "done"
        /\ Len(attempts[r]) = 2
        /\ attempts[r][1].outcome = "raise" /\ attempts[r][2].outcome = "return"
        /\ attempts[r][1].tool # attempts[r][2].tool
        /\ Len(heap[result[r].tool_calls]) = 2

\* C2: the status of every record matches the outcome of its call: completed
\* when _original_run returned, failed when it raised.
C2_StatusMatchesOutcome ==
    \A r \in Requests :
        (entry[r] = "chat_with_tool_calls" /\ pc[r] = "done") =>
            \A i \in 1..Len(heap[result[r].tool_calls]) :
                i <= Len(attempts[r]) =>
                    heap[result[r].tool_calls][i].status =
                        IF attempts[r][i].outcome = "return" THEN "completed" ELSE "failed"

\* C3: a step in which a call's _original_run raises appends exactly one
\* record (for that call, with the error text) and gives the caller the same
\* exception, never a normal return.
C3_RaiseRecordedOnceAndReraised ==
    [][\A r \in Requests :
          (Len(attempts'[r]) = Len(attempts[r]) + 1
           /\ LastOf(attempts'[r]).outcome = "raise") =>
              /\ Len(heap'[tool_calls_ref]) = Len(heap[tool_calls_ref]) + 1
              /\ SubSeq(heap'[tool_calls_ref], 1, Len(heap[tool_calls_ref]))
                    = heap[tool_calls_ref]
              /\ LastOf(heap'[tool_calls_ref]).tool = LastOf(attempts'[r]).tool
              /\ LastOf(heap'[tool_calls_ref]).output
                    = error_msg(LastOf(attempts'[r]).exc)
              /\ runResult'[r] = [kind |-> "raise", value |-> LastOf(attempts'[r]).exc]
      ]_vars

C3_Witness ==
    \E r \in Requests :
        /\ pc[r] = "except"
        /\ runResult[r] = [kind |-> "raise", value |-> "TypeError"]
        /\ Len(heap[tool_calls_ref]) = 1
        /\ heap[tool_calls_ref][1].output = error_msg("TypeError")

\* C4: the history a turn returns holds the records of that turn's tool
\* executions, all of them and no others, also when requests overlap or a tool
\* runs outside a turn.
C4_TurnHistoryIsolated ==
    \A r \in Requests :
        (entry[r] = "chat_with_tool_calls" /\ pc[r] = "done") =>
            HoldsAttemptsOf(result[r].tool_calls, r)

\* C5: every turn (chat and chat_with_tool_calls) resets the recorder exactly
\* once, at its start and before any of its tools executes.
C5_ResetOncePerTurn ==
    \A r \in Requests :
        (agent /\ entry[r] \in {"chat", "chat_with_tool_calls"}
               /\ pc[r] \in {"run", "except", "done"}) => resets[r] = 1

\* C6: a snapshot taken right after a reset (no recorder operation between
\* them) is empty, whatever the reset found in the history.
C6_ResetThenSnapshotEmpty ==
    (Len(ops) = 2 /\ ops[1].op = "clear" /\ ops[2].op = "get") =>
        heap[ops[2].ref] = <<>>

C6_Witness ==
    /\ Len(ops) = 2 /\ ops[1].op = "clear" /\ ops[2].op = "get"
    /\ ops[1].dropped
    /\ \E r \in Requests : pc[r] = "done" /\ result[r].tool_calls = ops[2].ref

\* C7: the list get_tool_calls() returned is not the live list, and it keeps
\* the content it was returned with through every later execution and reset.
C7_SnapshotImmutable ==
    \A r \in Requests :
        (result[r].set /\ result[r].has_calls) =>
            /\ result[r].tool_calls # tool_calls_ref
            /\ heap[result[r].tool_calls] = snapVal[r]

C7_Witness ==
    \E r \in Requests :
        /\ result[r].set /\ result[r].has_calls
        /\ Len(snapVal[r]) > 0
        /\ heap[tool_calls_ref] = <<>>
        /\ heap[result[r].tool_calls] = snapVal[r]
        /\ ops # <<>> /\ LastOf(ops).op = "clear"

\* C8: image analysis of a path that does not exist fails (ImageNotFound)
\* without a detection result and leaves exactly one record, whose status is
\* failed.
C8_MissingImageRecordedFailed ==
    \A r \in Requests :
        (entry[r] = "chat_with_tool_calls" /\ pc[r] = "done") =>
            \A i \in 1..Len(attempts[r]) :
                (attempts[r][i].tool = "image_analysis"
                 /\ Truthy(attempts[r][i].kwargs)
                 /\ Lookup(attempts[r][i].kwargs, "image_path") \notin ExistingImages) =>
                    /\ Len(heap[result[r].tool_calls]) = Len(attempts[r])
                    /\ heap[result[r].tool_calls][i].output = "image file does not exist"
                    /\ attempts[r][i].outcome = "raise"
                    /\ heap[result[r].tool_calls][i].status = "failed"

\* C9: a construction that found config.json present (whatever its content)
\* leaves the file as it found it.
C9_LoadKeepsExistingFile ==
    (storeOp.op = "load" /\ fileBefore.kind # "absent") => config_file = fileBefore

\* C10: a construction that found config.json missing or empty ends with the
\* built-in default catalog in memory (exactly the five yolov8 ids) and with
\* config.json on disk holding that catalog.
C10_BootstrapWritesDefault ==
    (storeOp.op = "load" /\ fileBefore.kind \in {"absent", "empty"}) =>
        /\ models_config = default_config
        /\ DOMAIN models_config.models = DefaultIds
        /\ config_file.kind = "json"
        /\ json_load(config_file).doc = models_config

\* an add_model / update_model_config / remove_model call has just returned `ret`
Returned(ret) == storeOp.op \in CatalogOps /\ storePc = "idle" /\ storeRet.ret = ret

\* C11: when add_model, update_model_config or remove_model returns True,
\* config.json holds exactly the catalog that is in memory.
C11_SuccessMeansPersisted ==
    Returned("True") => config_file = json_dump(models_config)

\* C12: when the write of the catalog failed during add_model,
\* update_model_config or remove_model, the call does not return True and the
\* catalog in memory is the one from before the call.
C12_PersistFailureRollsBack ==
    [][(storePc = "saved" /\ storePc' = "idle" /\ storeRet.write # "ok") =>
          (models_config' = configBefore /\ storeRet'.ret # "True")]_vars

\* C13: what a reader of the classification sees changes only by being
\* replaced with a complete new scan (every id of the catalog classified
\* against its descriptor and the files present); between two such
\* replacements, and after a scan that was abandoned, it is exactly what the
\* previous scan produced.
C13_ScanIsFullReplace ==
    [][\/ available_models' = available_models
       \/ available_models' = scan_models(models_config', artifacts', available_models, TRUE)]_vars

\* C14: when add_model, update_model_config or remove_model returns True, the
\* classification is the scan of the catalog as it is now: exactly the ids of
\* the catalog, each classified against its current descriptor.
C14_SuccessMeansRescanned ==
    Returned("True") =>
        /\ DOMAIN available_models = DOMAIN models_config.models
        /\ available_models = scan_models(models_config, artifacts, available_models, TRUE)

\* the model is classified available by the last scan
ClassifiedAvailable(id) ==
    id \in DOMAIN available_models /\ available_models[id].status = "available"

\* C15: when reload_models rebuilds the cache, the classification it works on
\* reflects the model files present at that time: every model of the catalog
\* is classified, and classified available exactly if its file is present.
C15_ReloadReflectsDisk ==
    [][(regPc = "cleared" /\ regPc' = "loaded") =>
          \A id \in DOMAIN models_config'.models :
             /\ id \in DOMAIN available_models'
             /\ (available_models'[id].status = "available"
                    <=> models_config'.models[id].file \in artifacts')]_vars

\* C16: a detection with an explicit model id succeeds exactly if the id is in
\* the catalog, is classified available and its backend is loaded, and then
\* it runs on the backend of that id; otherwise it fails, with no other
\* backend used.
C16_ExplicitIdMustBeAvailable ==
    (detection.set /\ detection.model_id # "") =>
        LET id == detection.model_id
            usable == /\ id \in DOMAIN models_config.models
                      /\ ClassifiedAvailable(id)
                      /\ yolo_key(id) \in DOMAIN models
        IN  /\ detection.success <=> usable
            /\ detection.success =>
                  (detection.key = yolo_key(id) /\ detection.backend = models[yolo_key(id)])

\* the order the claim gives
ClaimedOrder == <<"yolov8n", "yolov8s", "yolov8m", "yolov8l", "yolov8x">>

\* a detection without model id ran on the first loaded tier of the order, on
\* the generic default backend when no tier is loaded, and failed when that
\* is not loaded either
PriorityOrderFollowed ==
    (detection.set /\ detection.model_id = "") =>
        LET tiers == {i \in 1..Len(ClaimedOrder) : yolo_key(ClaimedOrder[i]) \in DOMAIN models}
        IN  IF tiers # {}
            THEN LET first == CHOOSE i \in tiers : \A j \in tiers : i <= j
                 IN  /\ detection.success
                     /\ detection.key = yolo_key(ClaimedOrder[first])
                     /\ detection.backend = models[detection.key]
            ELSE IF "object_detection" \in DOMAIN models
            THEN /\ detection.success
                 /\ detection.key = "object_detection"
                 /\ detection.backend = models["object_detection"]
            ELSE ~detection.success

\* C17: detection without model id follows the priority order yolov8n,
\* yolov8s, yolov8m, yolov8l, yolov8x, then the default backend, then fails;
\* and with A = yolov8n available (its backend loaded) and B = yolov8s
\* missing, a detection without id runs on A's backend and a detection asked
\* for B fails.
C17_PriorityThenDefault ==
    /\ PriorityOrderFollowed
    /\ (/\ detection.set
        /\ ClassifiedAvailable("yolov8n") /\ "yolo_yolov8n" \in DOMAIN models
        /\ "yolov8s" \in DOMAIN available_models
        /\ available_models["yolov8s"].status = "missing") =>
           /\ detection.model_id = "" =>
                 (detection.success /\ detection.key = "yolo_yolov8n")
           /\ detection.model_id = "yolov8s" => ~detection.success

\* C18: a backend resolution leaves the cache, the catalog and the
\* classification as they were and its outcome is a function of the cache
\* and the id asked for; keys are added to the cache only while the registry
\* is being built or reloaded.
C18_ResolutionHasNoSideEffect ==
    [][/\ detection'.set =>
            /\ models' = models
            /\ models_config' = models_config
            /\ available_models' = available_models
            /\ detection'.success = resolve(models, detection'.model_id).found
            /\ detection'.key = resolve(models, detection'.model_id).key
       /\ (DOMAIN models' \ DOMAIN models # {}) => regPc \in {"none", "cleared", "loaded"}]_vars

\* a resolution failed for a model that is classified available and whose
\* file is present, and nothing was loaded for it
C18_Witness ==
    /\ detection.set /\ detection.model_id = "custom" /\ ~detection.success
    /\ ClassifiedAvailable("custom")
    /\ available_models["custom"].file_path \in artifacts
    /\ regPc = "idle"
    /\ "yolo_custom" \notin DOMAIN models

\* C19: while reload_models is in progress the cache that readers see does
\* not change: it is the complete cache from before the reload until the
\* complete rebuilt one replaces it in the step that ends the reload.
C19_ReloadSwapsCacheAtomically ==
    [][regPc' \in {"cleared", "loaded"} => models' = models]_vars

\* C20: the rendered confidence is the raw confidence times 100 rounded to two
\* decimals and every bbox coordinate is the floor of the raw coordinate,
\* negative coordinates included; 0.8675 gives 86.75 and
\* (10.2, 5.9, 100.4, 80.1) gives [10, 5, 100, 80].
C20_RoundedAndFloored ==
    detection_info.set =>
        /\ 10 * detection_info.confidence - box.conf \in -5..5
        /\ \A i \in 1..4 : detection_info.bbox[i] = box.xyxy[i] \div 10
        /\ box.conf = 86750 => detection_info.confidence = 8675
        /\ box.xyxy = <<102, 59, 1004, 801>> => detection_info.bbox = <<10, 5, 100, 80>>

\* the input mapping of a call as captured before delegation: the keyword
\* mapping if any, else the first positional argument, else the empty mapping
CapturedInput(a) ==
    IF Truthy(a.kwargs) THEN PyDict(a.kwargs)
    ELSE IF Truthy(a.args) THEN PyStr(a.args[1])
    ELSE PyDict(<<>>)

\* C28: the input of every record is the input mapping captured before the
\* call was delegated, whether the call returned or raised.
C28_InputIndependentOfOutcome ==
    \A r \in Requests :
        (entry[r] = "chat_with_tool_calls" /\ pc[r] = "done") =>
            \A i \in 1..Len(heap[result[r].tool_calls]) :
                i <= Len(attempts[r]) =>
                    heap[result[r].tool_calls][i].input = CapturedInput(attempts[r][i])

\* the descriptor name of the model a cache key was loaded for
NameOfKey(key) == CHOOSE id \in DefaultIds \cup {"custom"} : yolo_key(id) = key

\* C29: in every successful detection result model_used names the backend
\* that ran: the name of the model whose backend was resolved, whether the id
\* was given or the backend came from the priority order, and a name of its
\* own for the default backend.
C29_ModelUsedNamesBackend ==
    (detection.set /\ detection.success) =>
        IF detection.key = "object_detection"
        THEN detection.model_used \notin {"", "unknown model"}
        ELSE detection.model_used = NameOfKey(detection.key)

\* C30: with the registry built or reloaded, a detection without model id
\* resolves to a backend whenever the cache holds any object-detection
\* backend (a yolo_ key of any id, or the default), and fails only when it
\* holds none.
C30_AnyDetectorResolves ==
    (detection.set /\ detection.model_id = "" /\ regPc = "idle") =>
        (detection.success <=> DOMAIN models \cap (YoloKeys \cup {"object_detection"}) # {})

\* C21: when the rendering or the writing of the annotated image fails, the
\* detection call still succeeds with the full detection list, and its result
\* has no annotated image path.
C21_RenderFailureLeavesPathAbsent ==
    (annotated.set /\ annotated.failure # "none") =>
        /\ annotated.success
        /\ annotated.detections = detections
        /\ annotated.annotated_image = ""

\* C22: a step of open_camera taken while the camera is open leaves the
\* handle as it was, releases nothing and does not stop a recording.
C22_OpenWhenOpenIsNoOp ==
    [][(camOp' = "open_camera" /\ camera # NoCamera /\ camera.opened) =>
          /\ camera' = camera
          /\ released' = released
          /\ is_recording' = is_recording]_vars

\* C23: a recording ends only in a step of stop_recording or in the step of
\* the recording thread that finds the duration over; no other step (the
\* delayed close, a close or a reopening of the camera) ends it.
C23_RecordingEndsOnlyByStopOrDuration ==
    [][(is_recording /\ ~is_recording') =>
          camOp' \in {"stop_recording", "record_video elapsed"}]_vars

\* C24: on the canvas, the mask of a detection has weight 30, the colour of
\* the palette entry (index mod palette size) of its detection, and lies
\* under the box and the label of that detection (it was drawn before them).
C24_MaskUnderBoxAndLabel ==
    \A k \in 1..Len(image) :
        image[k].kind = "mask" =>
            /\ image[k].alpha = MaskAlpha
            /\ image[k].color = image[k].det % PaletteSize
            /\ \A j \in 1..Len(image) :
                  (image[j].det = image[k].det /\ image[j].kind # "mask") =>
                      /\ image[j].color = image[k].color
                      /\ k < j

\* the parameter the spec names for a call: the first of the given keys, in
\* the declared order, that the caller gave ("" when none of them)
FirstGiven(kw, keys) ==
    IF keys = <<>> THEN ""
    ELSE LET given == {i \in 1..Len(keys) : HasKey(kw, keys[i])}
         IN  IF given = {} THEN ""
             ELSE Lookup(kw, keys[CHOOSE i \in given : \A j \in given : i <= j])

\* the value of the first keyword that is none of `keys` ("" when none)
FirstRemaining(kw, keys) ==
    LET others == {i \in 1..Len(kw) : kw[i][1] \notin keys}
    IN  IF others = {} THEN ""
        ELSE kw[CHOOSE i \in others : \A j \in others : i <= j][2]

\* C25: file_operation and document_read work with file_path, else path, else
\* the first remaining keyword value; cmd_search searches in path, else
\* search_path, else options, for keyword, else query.
C25_AliasesInDeclaredOrder ==
    resolved.set =>
        IF toolCall.tool \in {"file_operation", "document_read"}
        THEN resolved.file_path =
                IF HasKey(toolCall.kwargs, "file_path") \/ HasKey(toolCall.kwargs, "path")
                THEN FirstGiven(toolCall.kwargs, <<"file_path", "path">>)
                ELSE FirstRemaining(toolCall.kwargs, {"file_path", "path"})
        ELSE /\ resolved.options =
                   FirstGiven(toolCall.kwargs, <<"path", "search_path", "options">>)
             /\ (HasKey(toolCall.kwargs, "keyword") \/ HasKey(toolCall.kwargs, "query")) =>
                   resolved.query = FirstGiven(toolCall.kwargs, <<"keyword", "query">>)

\* C26: no command handed to the shell contains a blocked substring.
C26_BlockedNeverReachesShell ==
    shell_call # NoCommand => \A d \in dangerous_commands : ~contains(shell_call, d)

\* C27: a call with a command that contains 'shutdown' hands the command to
\* the shell exactly when the same string was pending, and then clears it;
\* otherwise it hands nothing to the shell, asks for confirmation and makes
\* the command pending.  Every other pending command stays pending.
C27_ShutdownNeedsRepeat ==
    [][\A c \in Commands :
          (submitted' = c /\ contains(c, "shutdown")) =>
              /\ IF c \in pending_commands
                 THEN shell_call' = c /\ c \notin pending_commands'
                 ELSE /\ shell_call' = NoCommand
                      /\ reply' = <<"confirm", "">>
                      /\ c \in pending_commands'
              /\ \A p \in pending_commands : p # c => p \in pending_commands']_vars

\* a confirmed shutdown went to the shell while another command is still
\* waiting for its confirmation
C27_Witness ==
    /\ submitted = <<"shutdown", "/s">>
    /\ shell_call = <<"shutdown", "/s">>
    /\ <<"shutdown", "/s">> \notin pending_commands
    /\ <<"Shutdown", "/s">> \in pending_commands

====
